---------------------------- MODULE Spec2Model ----------------------------
(* Model of the golly log package: the AsyncHandler (log/handler.go), the  *)
(* StreamHandler (log/stream.go) and the Failover/Multi combinators.       *)
EXTENDS Integers, Sequences, FiniteSets, TLC

(***************************************************************************)
(* Bounds of the model.                                                    *)
(***************************************************************************)
NumThreads == 2
MaxRecs == 3
MaxCap == 2
MaxFlushCalls == 2
MaxCloseCalls == 2
MaxStreamRecs == 2
MaxStreamFlushCalls == 1
MaxKids == 3
MaxComboOps == 4
MaxComboRecs == 2
MaxLoggers == 3
MaxLoggerOps == 3
MaxLogCalls == 2

Threads == 1..NumThreads
W == 0
Goroutines == Threads \cup {W}
NoOne == -1
BG == 0
StreamCallers == Threads \cup {BG}
InfoLog == 1
ErrorLog == 2
MixedLog == 3
NoRec == [id |-> 0, by |-> 0]

VARIABLES
  variant,      \* which Handler variant the run exercises
  oFilter,      \* Options.Filter given to StreamHandler: whether one is given, and the Entry ids it accepts
  closed,       \* async.closed of the struct AsyncHandler allocated
  mu,           \* async.mu of that struct: TRUE when locked
  rcv,          \* per goroutine: the receiver copy a value-receiver method works on
  cap,          \* bufsize given to AsyncHandler
  queue,        \* a.queue: the buffered Entries
  chClosed,     \* which of the channels queue, flush, flushWait, stop are closed
  pc,           \* position of every caller thread
  arg,          \* the Entry a Log call carries
  ret,          \* result of the thread's last completed call: "none" while in a call
  call,         \* facts recorded when the thread's current call was made
  wpc,          \* position of the worker goroutine (async.run)
  we,           \* run's local e
  wflush,       \* run's local flush
  wstop,        \* run's local stop
  hLog,         \* Entries the wrapped Handler's Log received, in order
  hFlushes,     \* number of Flush calls on the wrapped Handler
  hCloses,      \* number of Close calls on the wrapped Handler
  hCloseRes,    \* what the wrapped Handler's last Close returned
  panicked,     \* "" or the runtime panic that ended the process
  nextId,       \* next Entry id to issue
  enq,          \* the Entries sent on a.queue so far
  completed,    \* per thread: ids of its Entries whose Log call returned after the send
  dropped,      \* ids of the Entries a Log call returned for without sending
  flushCalls,   \* Flush calls made so far
  closeStarted, \* Close calls made so far
  closeDone,    \* Close calls that returned so far
  \* ---- StreamHandler (log/stream.go)
  sClosed,      \* stream.closed
  sMu,          \* stream.mu: NoOne or the goroutine holding it
  sHasBuf,      \* s.buf != nil (Options.BufferSize > 0)
  sHasFile,     \* s.file != nil (Options.Filename given)
  sLogInfo,     \* stream.logInfo
  sLogErr,      \* stream.logErr
  sFilter,      \* stream.filter: "nil", or the predicate as the set of Entry ids it accepts
  sBuf,         \* Entries held in s.buf
  sink,         \* Entries written to s.wc
  sinkCloses,   \* number of Close calls on s.wc
  sinkWriter,   \* NoOne or the goroutine whose formatter write to s.wc is in progress
  spc,          \* position of every goroutine calling the stream
  sarg,         \* the Entry a stream Log call carries
  sret,         \* result of the goroutine's last completed call
  scall,        \* facts recorded when the goroutine's current call was made
  sCloseLog,    \* the Close calls that returned: result, and whether it closed s.wc
  sNextId,      \* next Entry id to issue
  sFlushCalls,  \* Flush calls made by the caller threads
  sCloseCalls,  \* Close calls made so far
  sCloseDone,   \* Close calls that returned so far
  \* ---- FailoverHandler / MultiHandler (log/handler.go) over StreamHandler children
  kids,         \* the children f.handlers / l.handlers, in configured order
  cop,          \* the combinator's last call
  cret,         \* what that call returned
  cOps,         \* calls made on the combinator so far
  cCloseCalls,  \* Close calls made on the combinator so far
  cNextId,      \* next Entry id to issue
  ctrace,       \* the calls the combinator's last call made on its children, in order
  carg,         \* the Entry of the last Log call, as the caller holds it after the call
  cgiven,       \* e.Data as it was when that Log call was made
  \* ---- Logger tree and the propagation walk (Logger.log / Logger.logEntry)
  loggers,      \* the Loggers created so far; loggers[1] is root; parent 0 is nil
  lpc,          \* position of the logging call: "idle", "visit" (in the for loop), "end"
  lcur,         \* logEntry's l: the Logger the walk is at
  le,           \* logEntry's e: the Entry of the call
  lasync,       \* logEntry's local async
  levents,      \* what the current or last logging call did: Handler Log calls and the pool Put
  lcall,        \* facts recorded when the logging call was made
  pool,         \* the Entries entryPool holds
  held,         \* the Entries sent to an AsyncHandler's queue
  lCalls,       \* logging calls made so far
  lNextRec,     \* next fresh Entry to allocate
  lOps,         \* SetHandler and StopPropagation calls made so far
  lnew          \* the last call on a Logger when it was New: its receiver, argument and result

avars == <<closed, mu, rcv, cap, queue, chClosed, pc, arg, ret, call, wpc, we,
           wflush, wstop, hLog, hFlushes, hCloses, hCloseRes, panicked, nextId,
           enq, completed, dropped, flushCalls, closeStarted, closeDone>>

svars == <<sClosed, sMu, sHasBuf, sHasFile, sLogInfo, sLogErr, sFilter, sBuf, sink,
           sinkCloses, sinkWriter, spc, sarg, sret, scall, sCloseLog, sNextId,
           sFlushCalls, sCloseCalls, sCloseDone>>

cvars == <<kids, cop, cret, cOps, cCloseCalls, cNextId, ctrace, carg, cgiven>>

lvars == <<loggers, lpc, lcur, le, lasync, levents, lcall, pool, held, lCalls,
           lNextRec, lOps, lnew>>

vars == <<variant, oFilter, avars, svars, cvars, lvars>>

\* Options.Filter left nil
NoFilter == [given |-> FALSE, accepts |-> {}]

NoCall == [op |-> "none", ord |-> 0, afterClose |-> FALSE, snap |-> {}, hf |-> 0]

Ids(s) == {s[i].id : i \in 1..Len(s)}

InitAsyncVars ==
  /\ closed = FALSE
  /\ mu = FALSE
  /\ rcv = [g \in Goroutines |-> [closed |-> FALSE, mu |-> FALSE]]
  /\ queue = <<>>
  /\ chClosed = [c \in {"queue", "flush", "flushWait", "stop"} |-> FALSE]
  /\ pc = [t \in Threads |-> "idle"]
  /\ arg = [t \in Threads |-> NoRec]
  /\ ret = [t \in Threads |-> "none"]
  /\ call = [t \in Threads |-> NoCall]
  /\ wpc = "select"
  /\ we = NoRec
  /\ wflush = FALSE
  /\ wstop = FALSE
  /\ hLog = <<>>
  /\ hFlushes = 0
  /\ hCloses = 0
  /\ hCloseRes = "none"
  /\ panicked = ""
  /\ nextId = 1
  /\ enq = {}
  /\ completed = [t \in Threads |-> <<>>]
  /\ dropped = {}
  /\ flushCalls = 0
  /\ closeStarted = 0
  /\ closeDone = 0

\* no Entry: the argument of a call that carries none
NoEntry == [id |-> 0, data |-> {}]

NoSCall == [op |-> "none", afterClose |-> FALSE, performed |-> FALSE]

InitStreamVars ==
  /\ sClosed = FALSE
  /\ sMu = NoOne
  /\ sFilter = "nil"
  /\ sBuf = <<>>
  /\ sink = <<>>
  /\ sinkCloses = 0
  /\ sinkWriter = NoOne
  /\ sarg = [g \in StreamCallers |-> NoRec]
  /\ sret = [g \in StreamCallers |-> "none"]
  /\ scall = [g \in StreamCallers |-> NoSCall]
  /\ sCloseLog = <<>>
  /\ sNextId = 1
  /\ sFlushCalls = 0
  /\ sCloseCalls = 0
  /\ sCloseDone = 0

\* no StreamHandler is exercised
NoStream ==
  /\ InitStreamVars
  /\ sHasBuf = FALSE /\ sHasFile = FALSE /\ sLogInfo = FALSE /\ sLogErr = FALSE
  /\ spc = [g \in StreamCallers |-> "done"]

InitComboVars ==
  /\ cop = "none"
  /\ cret = "none"
  /\ cOps = 0
  /\ cCloseCalls = 0
  /\ cNextId = 1
  /\ ctrace = <<>>
  /\ carg = NoEntry
  /\ cgiven = {}

\* no combinator is exercised
NoCombo ==
  /\ InitComboVars
  /\ kids = <<>>

\* l.handler == nil
NoHandler == [kind |-> "nil", kids |-> <<>>]

\* &Logger{parent: p}: no handler, stop unset; firstAfterStop is the number of
\* the first logging call made after StopPropagation, 0 while it was not called
NewLogger(p, context) == [parent |-> p, context |-> context, handler |-> NoHandler,
                          stop |-> FALSE, firstAfterStop |-> 0]

NoNew == [parent |-> 0, ctx |-> "", child |-> 0, parentContext |-> ""]

NoLCall == [emitter |-> 0, syncChain |-> FALSE]

\* var root = &Logger{}; entryPool = &sync.Pool{}
InitLoggerVars ==
  /\ loggers = <<NewLogger(0, "")>>
  /\ lpc = "idle"
  /\ lcur = 0
  /\ le = 0
  /\ lasync = FALSE
  /\ levents = <<>>
  /\ lcall = NoLCall
  /\ pool = {}
  /\ held = {}
  /\ lCalls = 0
  /\ lNextRec = 1
  /\ lOps = 0
  /\ lnew = NoNew

\* no Logger is exercised
NoLogger == InitLoggerVars

\* AsyncHandler(bufsize, h): fresh channels, go a.run()
InitAsync ==
  /\ variant = "Async"
  /\ oFilter = NoFilter
  /\ cap \in 0..MaxCap
  /\ InitAsyncVars
  /\ NoStream
  /\ NoCombo
  /\ NoLogger

Running == variant = "Async" /\ panicked = ""

\* A method with a value receiver (func (a async) ...) runs on a copy of *a.
ReceiverCopy == [closed |-> closed, mu |-> mu]

(***************************************************************************)
(* async.Log                                                               *)
(***************************************************************************)
CallLog(t) ==
  /\ Running /\ pc[t] = "idle" /\ nextId <= MaxRecs
  /\ rcv' = [rcv EXCEPT ![t] = ReceiverCopy]
  /\ arg' = [arg EXCEPT ![t] = [id |-> nextId, by |-> t]]
  /\ nextId' = nextId + 1
  /\ pc' = [pc EXCEPT ![t] = "l_lock"]
  /\ ret' = [ret EXCEPT ![t] = "none"]
  /\ call' = [call EXCEPT ![t] = [NoCall EXCEPT !.op = "Log", !.afterClose = closeDone > 0]]
  /\ UNCHANGED <<variant, oFilter, lvars, svars, cvars, closed, mu, cap, queue, chClosed, wpc, we, wflush, wstop,
                 hLog, hFlushes, hCloses, panicked, enq, completed, dropped,
                 flushCalls, closeStarted, closeDone, hCloseRes>>

\* a.mu.Lock(); if a.closed { a.mu.Unlock(); return nil }
LogLock(t) ==
  /\ Running /\ pc[t] = "l_lock" /\ ~rcv[t].mu
  /\ IF rcv[t].closed
       THEN /\ pc' = [pc EXCEPT ![t] = "idle"]
            /\ ret' = [ret EXCEPT ![t] = "nil"]
            /\ dropped' = dropped \cup {arg[t].id}
            /\ rcv' = rcv
       ELSE /\ pc' = [pc EXCEPT ![t] = "l_send"]
            /\ rcv' = [rcv EXCEPT ![t].mu = TRUE]
            /\ UNCHANGED <<ret, dropped>>
  /\ UNCHANGED <<variant, oFilter, lvars, svars, cvars, closed, mu, cap, queue, chClosed, arg, call, wpc, we, wflush,
                 wstop, hLog, hFlushes, hCloses, panicked, nextId, enq, completed,
                 flushCalls, closeStarted, closeDone, hCloseRes>>

CanSendAlways == TRUE

\* a.queue <- e can complete into the buffer when it has room
CanSend == Len(queue) < cap

\* a.queue <- e, buffered
LogSend(t) ==
  /\ Running /\ pc[t] = "l_send" /\ ~chClosed["queue"]
  /\ CanSend
  /\ queue' = Append(queue, arg[t])
  /\ enq' = enq \cup {arg[t]}
  /\ pc' = [pc EXCEPT ![t] = "l_unlock"]
  /\ UNCHANGED <<variant, oFilter, lvars, svars, cvars, closed, mu, rcv, cap, chClosed, arg, ret, call, wpc, we, wflush,
                 wstop, hLog, hFlushes, hCloses, panicked, nextId, completed, dropped,
                 flushCalls, closeStarted, closeDone, hCloseRes>>

\* a.queue <- e on a closed channel
LogSendPanic(t) ==
  /\ Running /\ pc[t] = "l_send" /\ chClosed["queue"]
  /\ panicked' = "send on closed channel: queue"
  /\ UNCHANGED <<variant, oFilter, lvars, svars, cvars, closed, mu, rcv, cap, queue, chClosed, pc, arg, ret, call, wpc,
                 we, wflush, wstop, hLog, hFlushes, hCloses, nextId, enq, completed,
                 dropped, flushCalls, closeStarted, closeDone, hCloseRes>>

\* a.mu.Unlock(); return nil
LogUnlock(t) ==
  /\ Running /\ pc[t] = "l_unlock"
  /\ rcv' = [rcv EXCEPT ![t].mu = FALSE]
  /\ pc' = [pc EXCEPT ![t] = "idle"]
  /\ ret' = [ret EXCEPT ![t] = "nil"]
  /\ completed' = [completed EXCEPT ![t] = Append(@, arg[t].id)]
  /\ arg' = [arg EXCEPT ![t] = NoRec]
  /\ UNCHANGED <<variant, oFilter, lvars, svars, cvars, closed, mu, cap, queue, chClosed, call, wpc, we, wflush,
                 wstop, hLog, hFlushes, hCloses, panicked, nextId, enq, dropped,
                 flushCalls, closeStarted, closeDone, hCloseRes>>

(***************************************************************************)
(* async.Flush                                                             *)
(***************************************************************************)
CallFlush(t) ==
  /\ Running /\ pc[t] = "idle" /\ flushCalls < MaxFlushCalls
  /\ rcv' = [rcv EXCEPT ![t] = ReceiverCopy]
  /\ flushCalls' = flushCalls + 1
  /\ pc' = [pc EXCEPT ![t] = "f_lock"]
  /\ ret' = [ret EXCEPT ![t] = "none"]
  /\ call' = [call EXCEPT ![t] = [NoCall EXCEPT !.op = "Flush", !.afterClose = closeDone > 0,
                                                !.hf = hFlushes]]
  /\ UNCHANGED <<variant, oFilter, lvars, svars, cvars, closed, mu, cap, queue, chClosed, arg, wpc, we, wflush, wstop,
                 hLog, hFlushes, hCloses, panicked, nextId, enq, completed, dropped,
                 closeStarted, closeDone, hCloseRes>>

\* a.mu.Lock(); if a.closed { a.mu.Unlock(); return nil }; a.mu.Unlock()
FlushLock(t) ==
  /\ Running /\ pc[t] = "f_lock" /\ ~rcv[t].mu
  /\ IF rcv[t].closed
       THEN /\ pc' = [pc EXCEPT ![t] = "idle"]
            /\ ret' = [ret EXCEPT ![t] = "nil"]
       ELSE /\ pc' = [pc EXCEPT ![t] = "f_send"]
            /\ ret' = ret
  /\ UNCHANGED <<variant, oFilter, lvars, svars, cvars, closed, mu, rcv, cap, queue, chClosed, arg, call, wpc, we, wflush,
                 wstop, hLog, hFlushes, hCloses, panicked, nextId, enq, completed,
                 dropped, flushCalls, closeStarted, closeDone, hCloseRes>>

\* a.flush <- struct{}{} on a closed channel
FlushSendPanic(t) ==
  /\ Running /\ pc[t] = "f_send" /\ chClosed["flush"]
  /\ panicked' = "send on closed channel: flush"
  /\ UNCHANGED <<variant, oFilter, lvars, svars, cvars, closed, mu, rcv, cap, queue, chClosed, pc, arg, ret, call, wpc,
                 we, wflush, wstop, hLog, hFlushes, hCloses, nextId, enq, completed,
                 dropped, flushCalls, closeStarted, closeDone, hCloseRes>>

\* <-a.flushWait on a closed channel returns at once; return nil
FlushRecvClosed(t) ==
  /\ Running /\ pc[t] = "f_recv" /\ chClosed["flushWait"]
  /\ pc' = [pc EXCEPT ![t] = "idle"]
  /\ ret' = [ret EXCEPT ![t] = "nil"]
  /\ UNCHANGED <<variant, oFilter, lvars, svars, cvars, closed, mu, rcv, cap, queue, chClosed, arg, call, wpc, we, wflush,
                 wstop, hLog, hFlushes, hCloses, panicked, nextId, enq, completed,
                 dropped, flushCalls, closeStarted, closeDone, hCloseRes>>

(***************************************************************************)
(* async.Close                                                             *)
(***************************************************************************)
CallClose(t) ==
  /\ Running /\ pc[t] = "idle" /\ closeStarted < MaxCloseCalls
  /\ rcv' = [rcv EXCEPT ![t] = ReceiverCopy]
  /\ closeStarted' = closeStarted + 1
  /\ pc' = [pc EXCEPT ![t] = "c_lock"]
  /\ ret' = [ret EXCEPT ![t] = "none"]
  /\ call' = [call EXCEPT ![t] = [NoCall EXCEPT !.op = "Close", !.ord = closeStarted + 1,
                                                !.afterClose = closeDone > 0,
                                                !.snap = {r.id : r \in enq}]]
  /\ UNCHANGED <<variant, oFilter, lvars, svars, cvars, closed, mu, cap, queue, chClosed, arg, wpc, we, wflush, wstop,
                 hLog, hFlushes, hCloses, panicked, nextId, enq, completed, dropped,
                 flushCalls, closeDone, hCloseRes>>

\* a.mu.Lock(); if a.closed { a.mu.Unlock(); return nil }; a.closed = true; a.mu.Unlock()
CloseLock(t) ==
  /\ Running /\ pc[t] = "c_lock" /\ ~rcv[t].mu
  /\ IF rcv[t].closed
       THEN /\ pc' = [pc EXCEPT ![t] = "idle"]
            /\ ret' = [ret EXCEPT ![t] = "nil"]
            /\ closeDone' = closeDone + 1
            /\ rcv' = rcv
       ELSE /\ pc' = [pc EXCEPT ![t] = "c_send"]
            /\ rcv' = [rcv EXCEPT ![t].closed = TRUE]
            /\ UNCHANGED <<ret, closeDone>>
  /\ UNCHANGED <<variant, oFilter, lvars, svars, cvars, closed, mu, cap, queue, chClosed, arg, call, wpc, we, wflush,
                 wstop, hLog, hFlushes, hCloses, panicked, nextId, enq, completed,
                 dropped, flushCalls, closeStarted, hCloseRes>>

\* a.stop <- struct{}{} on a closed channel
CloseSendPanic(t) ==
  /\ Running /\ pc[t] = "c_send" /\ chClosed["stop"]
  /\ panicked' = "send on closed channel: stop"
  /\ UNCHANGED <<variant, oFilter, lvars, svars, cvars, closed, mu, rcv, cap, queue, chClosed, pc, arg, ret, call, wpc,
                 we, wflush, wstop, hLog, hFlushes, hCloses, nextId, enq, completed,
                 dropped, flushCalls, closeStarted, closeDone, hCloseRes>>

\* a.stop <- struct{}{} of t meets <-a.stop of another Close call u
CloseHandoff(t, u) ==
  /\ Running /\ t # u /\ pc[t] = "c_send" /\ pc[u] = "c_recv" /\ ~chClosed["stop"]
  /\ pc' = [pc EXCEPT ![t] = "c_recv", ![u] = "c_close"]
  /\ UNCHANGED <<variant, oFilter, lvars, svars, cvars, closed, mu, rcv, cap, queue, chClosed, arg, ret, call, wpc, we,
                 wflush, wstop, hLog, hFlushes, hCloses, panicked, nextId, enq,
                 completed, dropped, flushCalls, closeStarted, closeDone, hCloseRes>>

\* <-a.stop on a closed channel returns at once
CloseRecvClosed(t) ==
  /\ Running /\ pc[t] = "c_recv" /\ chClosed["stop"]
  /\ pc' = [pc EXCEPT ![t] = "c_close"]
  /\ UNCHANGED <<variant, oFilter, lvars, svars, cvars, closed, mu, rcv, cap, queue, chClosed, arg, ret, call, wpc, we,
                 wflush, wstop, hLog, hFlushes, hCloses, panicked, nextId, enq,
                 completed, dropped, flushCalls, closeStarted, closeDone, hCloseRes>>

\* close(a.stop)
CloseChan(t) ==
  /\ Running /\ pc[t] = "c_close"
  /\ IF chClosed["stop"]
       THEN /\ panicked' = "close of closed channel: stop"
            /\ UNCHANGED <<chClosed, pc>>
       ELSE /\ chClosed' = [chClosed EXCEPT !["stop"] = TRUE]
            /\ pc' = [pc EXCEPT ![t] = "c_hclose"]
            /\ panicked' = panicked
  /\ UNCHANGED <<variant, oFilter, lvars, svars, cvars, closed, mu, rcv, cap, queue, arg, ret, call, wpc, we, wflush,
                 wstop, hLog, hFlushes, hCloses, nextId, enq, completed, dropped,
                 flushCalls, closeStarted, closeDone, hCloseRes>>

\* return a.handler.Close()
CloseHandler(t) ==
  /\ Running /\ pc[t] = "c_hclose"
  /\ hCloses' = hCloses + 1
  /\ \E r \in {"nil", "errWrapped"} : hCloseRes' = r /\ ret' = [ret EXCEPT ![t] = r]
  /\ pc' = [pc EXCEPT ![t] = "idle"]
  /\ closeDone' = closeDone + 1
  /\ UNCHANGED <<variant, oFilter, lvars, svars, cvars, closed, mu, rcv, cap, queue, chClosed, arg, call, wpc, we, wflush,
                 wstop, hLog, hFlushes, panicked, nextId, enq, completed, dropped,
                 flushCalls, closeStarted>>

(***************************************************************************)
(* async.run, the worker goroutine                                         *)
(***************************************************************************)
\* a receive from a buffered channel takes the oldest element
QueueTakeNewest == [e |-> queue[Len(queue)], rest |-> SubSeq(queue, 1, Len(queue) - 1)]

QueueTake == [e |-> Head(queue), rest |-> Tail(queue)]

\* select: case e = <-a.queue, from the buffer
WSelectQueue ==
  /\ Running /\ wpc = "select" /\ Len(queue) > 0
  /\ we' = QueueTake.e
  /\ queue' = QueueTake.rest
  /\ wpc' = "log"
  /\ UNCHANGED <<variant, oFilter, lvars, svars, cvars, closed, mu, rcv, cap, chClosed, pc, arg, ret, call, wflush, wstop,
                 hLog, hFlushes, hCloses, panicked, nextId, enq, completed, dropped,
                 flushCalls, closeStarted, closeDone, hCloseRes>>

\* select: case e = <-a.queue, meeting the send of t on an unbuffered queue
WSelectQueueDirect(t) ==
  /\ Running /\ wpc = "select" /\ cap = 0 /\ pc[t] = "l_send" /\ ~chClosed["queue"]
  /\ we' = arg[t]
  /\ enq' = enq \cup {arg[t]}
  /\ pc' = [pc EXCEPT ![t] = "l_unlock"]
  /\ wpc' = "log"
  /\ UNCHANGED <<variant, oFilter, lvars, svars, cvars, closed, mu, rcv, cap, queue, chClosed, arg, ret, call, wflush,
                 wstop, hLog, hFlushes, hCloses, panicked, nextId, completed, dropped,
                 flushCalls, closeStarted, closeDone, hCloseRes>>

\* select: case <-a.stop, meeting the send of Close call t; stop = true
WSelectStop(t) ==
  /\ Running /\ wpc = "select" /\ pc[t] = "c_send" /\ ~chClosed["stop"]
  /\ wstop' = TRUE
  /\ pc' = [pc EXCEPT ![t] = "c_recv"]
  /\ wpc' = "check"
  /\ UNCHANGED <<variant, oFilter, lvars, svars, cvars, closed, mu, rcv, cap, queue, chClosed, arg, ret, call, we, wflush,
                 hLog, hFlushes, hCloses, panicked, nextId, enq, completed, dropped,
                 flushCalls, closeStarted, closeDone, hCloseRes>>

\* select: case <-a.flush, meeting the send of Flush call t; flush = true
WSelectFlush(t) ==
  /\ Running /\ wpc = "select" /\ pc[t] = "f_send" /\ ~chClosed["flush"]
  /\ wflush' = TRUE
  /\ pc' = [pc EXCEPT ![t] = "f_recv"]
  /\ wpc' = "check"
  /\ UNCHANGED <<variant, oFilter, lvars, svars, cvars, closed, mu, rcv, cap, queue, chClosed, arg, ret, call, we, wstop,
                 hLog, hFlushes, hCloses, panicked, nextId, enq, completed, dropped,
                 flushCalls, closeStarted, closeDone, hCloseRes>>

\* a.handler.Log(e)
WLog ==
  /\ Running /\ wpc = "log"
  /\ hLog' = Append(hLog, we)
  /\ wpc' = "check"
  /\ UNCHANGED <<variant, oFilter, lvars, svars, cvars, closed, mu, rcv, cap, queue, chClosed, pc, arg, ret, call, we,
                 wflush, wstop, hFlushes, hCloses, panicked, nextId, enq, completed,
                 dropped, flushCalls, closeStarted, closeDone, hCloseRes>>

QueueEmptyUnchecked == TRUE

\* len(a.queue) == 0
QueueEmpty == Len(queue) = 0

\* one mutex shared by every call and the worker: a Log call holds it from
\* its Lock to its Unlock, the send on a.queue included
WorkerLockShared == \A t \in Threads : ~rcv[t].mu

\* a.mu.Lock() of run() can be taken: a is the worker's own copy of the struct
WorkerLockFree == ~rcv[W].mu

\* if flush { a.mu.Lock(); if len(a.queue) == 0 {...} else {...} }
\* else if stop && len(a.queue) == 0 {...}
WCheck ==
  /\ Running /\ wpc = "check"
  /\ IF wflush
       THEN /\ WorkerLockFree
            /\ wpc' = IF QueueEmpty THEN "hflush" ELSE "select"
       ELSE wpc' = IF wstop /\ QueueEmpty THEN "closeFlush" ELSE "select"
  /\ UNCHANGED <<variant, oFilter, lvars, svars, cvars, closed, mu, rcv, cap, queue, chClosed, pc, arg, ret, call, we,
                 wflush, wstop, hLog, hFlushes, hCloses, panicked, nextId, enq,
                 completed, dropped, flushCalls, closeStarted, closeDone, hCloseRes>>

\* a.handler.Flush(); flush = false
WHFlush ==
  /\ Running /\ wpc = "hflush"
  /\ hFlushes' = hFlushes + 1
  /\ wflush' = FALSE
  /\ wpc' = "sendFlushWait"
  /\ UNCHANGED <<variant, oFilter, lvars, svars, cvars, closed, mu, rcv, cap, queue, chClosed, pc, arg, ret, call, we,
                 wstop, hLog, hCloses, panicked, nextId, enq, completed, dropped,
                 flushCalls, closeStarted, closeDone, hCloseRes>>

\* a.flushWait <- struct{}{}, meeting <-a.flushWait of Flush call t, which returns nil
WSendFlushWait(t) ==
  /\ Running /\ wpc = "sendFlushWait" /\ pc[t] = "f_recv"
  /\ pc' = [pc EXCEPT ![t] = "idle"]
  /\ ret' = [ret EXCEPT ![t] = "nil"]
  /\ wpc' = "select"
  /\ UNCHANGED <<variant, oFilter, lvars, svars, cvars, closed, mu, rcv, cap, queue, chClosed, arg, call, we, wflush,
                 wstop, hLog, hFlushes, hCloses, panicked, nextId, enq, completed,
                 dropped, flushCalls, closeStarted, closeDone, hCloseRes>>

\* close(a.flush)
WCloseFlush ==
  /\ Running /\ wpc = "closeFlush"
  /\ chClosed' = [chClosed EXCEPT !["flush"] = TRUE]
  /\ wpc' = "closeFlushWait"
  /\ UNCHANGED <<variant, oFilter, lvars, svars, cvars, closed, mu, rcv, cap, queue, pc, arg, ret, call, we, wflush,
                 wstop, hLog, hFlushes, hCloses, panicked, nextId, enq, completed,
                 dropped, flushCalls, closeStarted, closeDone, hCloseRes>>

\* close(a.flushWait)
WCloseFlushWait ==
  /\ Running /\ wpc = "closeFlushWait"
  /\ chClosed' = [chClosed EXCEPT !["flushWait"] = TRUE]
  /\ wpc' = "closeQueue"
  /\ UNCHANGED <<variant, oFilter, lvars, svars, cvars, closed, mu, rcv, cap, queue, pc, arg, ret, call, we, wflush,
                 wstop, hLog, hFlushes, hCloses, panicked, nextId, enq, completed,
                 dropped, flushCalls, closeStarted, closeDone, hCloseRes>>

\* close(a.queue)
WCloseQueue ==
  /\ Running /\ wpc = "closeQueue"
  /\ chClosed' = [chClosed EXCEPT !["queue"] = TRUE]
  /\ wpc' = "ack"
  /\ UNCHANGED <<variant, oFilter, lvars, svars, cvars, closed, mu, rcv, cap, queue, pc, arg, ret, call, we, wflush,
                 wstop, hLog, hFlushes, hCloses, panicked, nextId, enq, completed,
                 dropped, flushCalls, closeStarted, closeDone, hCloseRes>>

\* a.stop <- struct{}{}, meeting <-a.stop of Close call t; break
WAck(t) ==
  /\ Running /\ wpc = "ack" /\ pc[t] = "c_recv" /\ ~chClosed["stop"]
  /\ pc' = [pc EXCEPT ![t] = "c_close"]
  /\ wpc' = "done"
  /\ UNCHANGED <<variant, oFilter, lvars, svars, cvars, closed, mu, rcv, cap, queue, chClosed, arg, ret, call, we, wflush,
                 wstop, hLog, hFlushes, hCloses, panicked, nextId, enq, completed,
                 dropped, flushCalls, closeStarted, closeDone, hCloseRes>>

\* a.stop <- struct{}{} on a closed channel
WAckPanic ==
  /\ Running /\ wpc = "ack" /\ chClosed["stop"]
  /\ panicked' = "send on closed channel: stop (worker)"
  /\ UNCHANGED <<variant, oFilter, lvars, svars, cvars, closed, mu, rcv, cap, queue, chClosed, pc, arg, ret, call, wpc,
                 we, wflush, wstop, hLog, hFlushes, hCloses, nextId, enq, completed,
                 dropped, flushCalls, closeStarted, closeDone, hCloseRes>>

NextAsync ==
  \/ \E t \in Threads : CallLog(t)
  \/ \E t \in Threads : LogLock(t)
  \/ \E t \in Threads : LogSend(t)
  \/ \E t \in Threads : LogSendPanic(t)
  \/ \E t \in Threads : LogUnlock(t)
  \/ \E t \in Threads : CallFlush(t)
  \/ \E t \in Threads : FlushLock(t)
  \/ \E t \in Threads : FlushSendPanic(t)
  \/ \E t \in Threads : FlushRecvClosed(t)
  \/ \E t \in Threads : CallClose(t)
  \/ \E t \in Threads : CloseLock(t)
  \/ \E t \in Threads : CloseSendPanic(t)
  \/ \E t, u \in Threads : CloseHandoff(t, u)
  \/ \E t \in Threads : CloseRecvClosed(t)
  \/ \E t \in Threads : CloseChan(t)
  \/ \E t \in Threads : CloseHandler(t)
  \/ WSelectQueue
  \/ \E t \in Threads : WSelectQueueDirect(t)
  \/ \E t \in Threads : WSelectStop(t)
  \/ \E t \in Threads : WSelectFlush(t)
  \/ WLog
  \/ WCheck
  \/ WHFlush
  \/ \E t \in Threads : WSendFlushWait(t)
  \/ WCloseFlush
  \/ WCloseFlushWait
  \/ WCloseQueue
  \/ \E t \in Threads : WAck(t)
  \/ WAckPanic

SpecAsync == InitAsync /\ [][NextAsync]_vars

\* the steps of the worker goroutine run()
WStep ==
  \/ WSelectQueue
  \/ \E t \in Threads : WSelectQueueDirect(t) \/ WSelectStop(t) \/ WSelectFlush(t)
  \/ WLog \/ WCheck \/ WHFlush
  \/ \E t \in Threads : WSendFlushWait(t)
  \/ WCloseFlush \/ WCloseFlushWait \/ WCloseQueue
  \/ \E t \in Threads : WAck(t)
  \/ WAckPanic

\* the steps of thread t inside a call it has made, the channel operations
\* it completes together with the worker or another thread included
TStep(t) ==
  \/ LogLock(t) \/ LogSend(t) \/ LogSendPanic(t) \/ LogUnlock(t)
  \/ FlushLock(t) \/ FlushSendPanic(t) \/ FlushRecvClosed(t)
  \/ CloseLock(t) \/ CloseSendPanic(t) \/ CloseRecvClosed(t) \/ CloseChan(t) \/ CloseHandler(t)
  \/ \E u \in Threads : CloseHandoff(t, u) \/ CloseHandoff(u, t)
  \/ WSelectQueueDirect(t) \/ WSelectStop(t) \/ WSelectFlush(t)
  \/ WSendFlushWait(t) \/ WAck(t)

\* the scheduler runs every goroutine that can take a step
SpecAsyncFair ==
  InitAsync /\ [][NextAsync]_vars /\ WF_vars(WStep) /\ \A t \in Threads : WF_vars(TStep(t))

(***************************************************************************)
(* Properties of the AsyncHandler                                          *)
(***************************************************************************)
Open == closeStarted = 0
Returned(t, op) == pc[t] = "idle" /\ call[t].op = op /\ ret[t] # "none"
RECURSIVE OnlyBy(_, _)
OnlyBy(s, t) ==
  IF s = <<>> THEN <<>>
  ELSE IF Head(s).by = t THEN <<Head(s).id>> \o OnlyBy(Tail(s), t)
  ELSE OnlyBy(Tail(s), t)
Ascending(s) == \A i, j \in 1..Len(s) : i < j => s[i] < s[j]
InHand == IF wpc = "log" THEN <<we>> ELSE <<>>
\* the Entries of t that were sent, in the order they will have reached the wrapped Handler
Pipeline(t) == OnlyBy(hLog, t) \o OnlyBy(InHand, t) \o OnlyBy(queue, t)

\* C1: when a Flush call returns on an open AsyncHandler, every Entry whose Log
\* call the same thread completed before it has been passed to the wrapped
\* Handler's Log, and the wrapped Handler's Flush ran during the call.
C1_FlushBarrier ==
  \A t \in Threads :
    (Returned(t, "Flush") /\ Open) =>
       /\ \A i \in 1..Len(completed[t]) : completed[t][i] \in Ids(hLog)
       /\ hFlushes > call[t].hf

C1_Witness ==
  \E t \in Threads :
    /\ Returned(t, "Flush") /\ Open
    /\ Len(completed[t]) > cap /\ Len(completed[t]) >= 2
    /\ \A i \in 1..Len(completed[t]) : completed[t][i] \in Ids(hLog)

\* C2: a Close call that is not the first one returns nil straight after its
\* closed check: it never signals the worker, never panics and never closes
\* the wrapped Handler a second time.
C2_CloseIdempotent ==
  /\ \A t \in Threads :
       (call[t].op = "Close" /\ call[t].ord >= 2) =>
          /\ pc[t] \in {"c_lock", "idle"}
          /\ pc[t] = "idle" => ret[t] = "nil"
  /\ hCloses <= 1
  /\ panicked \notin {"send on closed channel: stop", "close of closed channel: stop",
                      "send on closed channel: stop (worker)"}

\* C3: a Log or Flush call made after a Close call returned is a no-op: it
\* returns nil after its closed check, sends nothing and does not panic.
C3_NoOpAfterClose ==
  \A t \in Threads :
    (call[t].afterClose /\ call[t].op \in {"Log", "Flush"}) =>
       /\ pc[t] \in {"l_lock", "f_lock", "idle"}
       /\ pc[t] = "idle" => ret[t] = "nil"
       /\ call[t].op = "Log" => arg[t] \notin enq
       /\ panicked \notin {"send on closed channel: queue", "send on closed channel: flush"}

\* C4: when the first Close call is about to close the wrapped Handler, and
\* when it has returned, every Entry sent before the call was made has been
\* passed to the wrapped Handler's Log; it returns the wrapped Close's result.
C4_CloseDrains ==
  \A t \in Threads :
    (call[t].op = "Close" /\ call[t].ord = 1) =>
       /\ (pc[t] = "c_hclose" \/ Returned(t, "Close")) => call[t].snap \subseteq Ids(hLog)
       /\ Returned(t, "Close") => hCloses >= 1 /\ ret[t] = hCloseRes

\* C5: while the handler is open, the Entries of each thread that were sent
\* are exactly those the wrapped Handler received, the worker holds or the
\* queue holds, each once and in the order the thread issued them.
C5_ProducerOrder ==
  Open =>
    \A t \in Threads :
      /\ Ascending(Pipeline(t))
      /\ {Pipeline(t)[i] : i \in 1..Len(Pipeline(t))} = {r.id : r \in {x \in enq : x.by = t}}
      /\ \A i \in 1..Len(completed[t]) : completed[t][i] \in {r.id : r \in enq}

C5_Witness ==
  /\ Open
  /\ \E t \in Threads : Len(OnlyBy(hLog, t)) >= 2
  /\ Len(hLog) = MaxRecs

\* C6: the queue never holds more than its capacity, so a Log call whose send
\* finds it full stays blocked; while the handler is open no Log call returns
\* without having sent its Entry.
C6_Backpressure ==
  /\ Len(queue) <= cap
  /\ Open => dropped = {}
  /\ Open => \A t \in Threads :
               \A i \in 1..Len(completed[t]) : completed[t][i] \in {r.id : r \in enq}

C6_Witness ==
  /\ Open /\ cap > 0 /\ Len(queue) = cap
  /\ \E t \in Threads : pc[t] = "l_send"

\* C22: the worker calls the wrapped Handler's Flush only straight after it
\* found the queue empty with a flush request pending, it starts to send a
\* flush-done signal only when that Flush call has returned, and a Flush
\* caller receives a signal only from a worker that is sending one.
C22_FlushDoneAfterEmpty ==
  [][/\ (wpc' = "hflush" /\ wpc # "hflush") => (wpc = "check" /\ wflush /\ Len(queue) = 0)
     /\ (hFlushes' # hFlushes) => (wpc = "hflush" /\ hFlushes' = hFlushes + 1)
     /\ (wpc' = "sendFlushWait" /\ wpc # "sendFlushWait") =>
           (wpc = "hflush" /\ hFlushes' = hFlushes + 1)
     /\ \A t \in Threads :
          (pc[t] = "f_recv" /\ pc'[t] = "idle" /\ ~chClosed["flushWait"]) =>
             (wpc = "sendFlushWait" /\ wpc' = "select")]_vars

\* the worker is about to signal flush-done after the wrapped Flush, while a
\* producer has put a new Entry into the queue since the worker saw it empty
C22_Witness ==
  /\ wpc = "sendFlushWait" /\ hFlushes = 1 /\ Len(queue) > 0 /\ Len(hLog) > 0
  /\ \E t \in Threads : pc[t] = "f_recv"

\* C23 as stated: every Entry the wrapped Handler's Log received was taken
\* from the queue by the worker, one at a time, and the worker does not call
\* the wrapped Log once AsyncHandler.Close has called the wrapped Close.
C23_WorkerOnly ==
  /\ \A i \in 1..Len(hLog) : hLog[i] \in enq
  /\ \A i, j \in 1..Len(hLog) : i # j => hLog[i] # hLog[j]
  /\ wpc = "log" => we \in enq /\ we.id \notin Ids(hLog)
  /\ hCloses > 0 => wpc # "log"
\* C28: no thread stands at a send on a channel that is already closed (in Go
\* such a send panics at once): not a Log at a.queue, not a Flush at a.flush,
\* not a Close at a.stop, whatever the interleaving.
C28_NoSendOnClosed ==
  \A t \in Threads :
    /\ ~(pc[t] = "l_send" /\ chClosed["queue"])
    /\ ~(pc[t] = "f_send" /\ chClosed["flush"])
    /\ ~(pc[t] = "c_send" /\ chClosed["stop"])
    /\ panicked = ""
\* the steps of an AsyncHandler that is logged to and flushed and never closed
NextAsyncOpen ==
  \/ \E t \in Threads : CallLog(t)
  \/ \E t \in Threads : LogLock(t)
  \/ \E t \in Threads : LogSend(t)
  \/ \E t \in Threads : LogUnlock(t)
  \/ \E t \in Threads : CallFlush(t)
  \/ \E t \in Threads : FlushLock(t)
  \/ WSelectQueue
  \/ \E t \in Threads : WSelectQueueDirect(t)
  \/ \E t \in Threads : WSelectFlush(t)
  \/ WLog
  \/ WCheck
  \/ WHFlush
  \/ \E t \in Threads : WSendFlushWait(t)

\* the same scheduling as SpecAsyncFair, for callers that never call Close
SpecAsyncOpenFair ==
  InitAsync /\ [][NextAsyncOpen]_vars /\ WF_vars(WStep) /\ \A t \in Threads : WF_vars(TStep(t))

\* C26: a Flush call eventually returns, unless a Close call is made meanwhile
C26_FlushReturns ==
  \A t \in Threads :
    (call[t].op = "Flush" /\ pc[t] # "idle") ~> (pc[t] = "idle" \/ closeStarted > 0)

\* C27: once the worker has received the stop request of the only Close call
\* it closes its channels and acknowledges, and that Close call returns
\* (unless a second Close call is made or a thread panics meanwhile).
C27_CloseReturns ==
  (wstop /\ closeStarted = 1) ~> (closeDone > 0 \/ closeStarted > 1 \/ panicked # "")

\* C29: a producer blocked in the send of Log gets its Entry into the queue
\* as long as the worker has not closed the queue (that is C28) and no thread
\* has panicked: the worker keeps taking Entries, Flush requests or not.
C29_ProducerUnblocked ==
  \A t \in Threads :
    (pc[t] = "l_send") ~> (pc[t] # "l_send" \/ chClosed["queue"] \/ panicked # "")

\* a producer waits in its send on the full queue, holding its lock, while
\* the worker, with a Flush request noted, is at its own Lock
C29_Witness ==
  /\ cap > 0 /\ Len(queue) = cap /\ wflush /\ wpc = "check" /\ Open
  /\ \E t \in Threads : pc[t] = "l_send" /\ rcv[t].mu


(***************************************************************************)
(* StreamHandler (log/stream.go)                                           *)
(***************************************************************************)
\* o.LogType & bit != 0, for bit a power of two
HasBit(x, bit) == (x \div bit) % 2 = 1

\* StreamHandler(o): s.wc set, s.buf and go s.flush(...) when BufferSize > 0,
\* logErr/logInfo from o.LogType; s.filter is left nil
InitStream ==
  /\ variant = "Stream"
  /\ oFilter = NoFilter
  /\ InitStreamVars
  /\ sHasBuf \in BOOLEAN
  /\ sHasFile \in BOOLEAN
  /\ \E lt \in 0..MixedLog : sLogErr = HasBit(lt, ErrorLog) /\ sLogInfo = HasBit(lt, InfoLog)
  /\ spc = [g \in StreamCallers |-> IF g = BG THEN (IF sHasBuf THEN "sleep" ELSE "done")
                                             ELSE "idle"]
  /\ cap = 0
  /\ InitAsyncVars
  /\ NoCombo
  /\ NoLogger

\* StreamHandler(o) with o.Filter set to a predicate, o.Stream given and no
\* Filename; the constructor is the same code: s.filter is left nil
InitStreamFiltered ==
  /\ variant = "Stream"
  /\ oFilter \in [given : {TRUE}, accepts : SUBSET (1..MaxStreamRecs)]
  /\ InitStreamVars
  /\ sHasBuf \in BOOLEAN
  /\ sHasFile = FALSE
  /\ \E lt \in InfoLog..MixedLog : sLogErr = HasBit(lt, ErrorLog) /\ sLogInfo = HasBit(lt, InfoLog)
  /\ spc = [g \in StreamCallers |-> IF g = BG THEN (IF sHasBuf THEN "sleep" ELSE "done")
                                             ELSE "idle"]
  /\ cap = 0
  /\ InitAsyncVars
  /\ NoCombo
  /\ NoLogger

SRunning == variant = "Stream"

SCallLog(t) ==
  /\ SRunning /\ t \in Threads /\ spc[t] = "idle" /\ sNextId <= MaxStreamRecs
  /\ \E isErr \in BOOLEAN : sarg' = [sarg EXCEPT ![t] = [id |-> sNextId, isError |-> isErr]]
  /\ sNextId' = sNextId + 1
  /\ spc' = [spc EXCEPT ![t] = "lock"]
  /\ sret' = [sret EXCEPT ![t] = "none"]
  /\ scall' = [scall EXCEPT ![t] = [NoSCall EXCEPT !.op = "Log", !.afterClose = sCloseDone > 0]]
  /\ UNCHANGED <<variant, oFilter, lvars, avars, cvars, sClosed, sMu, sHasBuf, sHasFile, sLogInfo, sLogErr, sFilter,
                 sBuf, sink, sinkCloses, sinkWriter, sCloseLog, sFlushCalls, sCloseCalls,
                 sCloseDone>>

SCallFlush(t) ==
  /\ SRunning /\ t \in Threads /\ spc[t] = "idle" /\ sFlushCalls < MaxStreamFlushCalls
  /\ sFlushCalls' = sFlushCalls + 1
  /\ spc' = [spc EXCEPT ![t] = "lock"]
  /\ sret' = [sret EXCEPT ![t] = "none"]
  /\ scall' = [scall EXCEPT ![t] = [NoSCall EXCEPT !.op = "Flush", !.afterClose = sCloseDone > 0]]
  /\ UNCHANGED <<variant, oFilter, lvars, avars, cvars, sClosed, sMu, sHasBuf, sHasFile, sLogInfo, sLogErr, sFilter,
                 sBuf, sink, sinkCloses, sinkWriter, sarg, sCloseLog, sNextId, sCloseCalls,
                 sCloseDone>>

SCallClose(t) ==
  /\ SRunning /\ t \in Threads /\ spc[t] = "idle" /\ sCloseCalls < MaxCloseCalls
  /\ sCloseCalls' = sCloseCalls + 1
  /\ spc' = [spc EXCEPT ![t] = "lock"]
  /\ sret' = [sret EXCEPT ![t] = "none"]
  /\ scall' = [scall EXCEPT ![t] = [NoSCall EXCEPT !.op = "Close", !.afterClose = sCloseDone > 0]]
  /\ UNCHANGED <<variant, oFilter, lvars, avars, cvars, sClosed, sMu, sHasBuf, sHasFile, sLogInfo, sLogErr, sFilter,
                 sBuf, sink, sinkCloses, sinkWriter, sarg, sCloseLog, sNextId, sFlushCalls,
                 sCloseDone>>

\* stream.flush: time.Sleep(duration) is over; s.Flush() is called
BGWake ==
  /\ SRunning /\ spc[BG] = "sleep"
  /\ spc' = [spc EXCEPT ![BG] = "lock"]
  /\ sret' = [sret EXCEPT ![BG] = "none"]
  /\ scall' = [scall EXCEPT ![BG] = [NoSCall EXCEPT !.op = "Flush", !.afterClose = sCloseDone > 0]]
  /\ UNCHANGED <<variant, oFilter, lvars, avars, cvars, sClosed, sMu, sHasBuf, sHasFile, sLogInfo, sLogErr, sFilter,
                 sBuf, sink, sinkCloses, sinkWriter, sarg, sCloseLog, sNextId, sFlushCalls,
                 sCloseCalls, sCloseDone>>

MuFreeUnchecked == TRUE

\* s.mu.Lock() can be taken
MuFree == sMu = NoOne

\* s.mu.Lock()
SLock(g) ==
  /\ SRunning /\ spc[g] = "lock" /\ MuFree
  /\ sMu' = g
  /\ spc' = [spc EXCEPT ![g] = "body"]
  /\ UNCHANGED <<variant, oFilter, lvars, avars, cvars, sClosed, sHasBuf, sHasFile, sLogInfo, sLogErr, sFilter,
                 sBuf, sink, sinkCloses, sinkWriter, sarg, sret, scall, sCloseLog, sNextId,
                 sFlushCalls, sCloseCalls, sCloseDone>>

MarkClosedForgotten == sClosed

\* the value s.closed = true stores
MarkClosed == TRUE

\* Close: if !s.closed { s.closed = true; return s.wc.Close() }; return errAlreadyClosed
SCloseBody(g) ==
  /\ SRunning /\ spc[g] = "body" /\ scall[g].op = "Close"
  /\ IF ~sClosed
       THEN /\ sClosed' = MarkClosed
            /\ spc' = [spc EXCEPT ![g] = "wcclose"]
            /\ sret' = sret
       ELSE /\ sret' = [sret EXCEPT ![g] = "errAlreadyClosed"]
            /\ spc' = [spc EXCEPT ![g] = "unlock"]
            /\ sClosed' = sClosed
  /\ UNCHANGED <<variant, oFilter, lvars, avars, cvars, sMu, sHasBuf, sHasFile, sLogInfo, sLogErr, sFilter, sBuf,
                 sink, sinkCloses, sinkWriter, sarg, scall, sCloseLog, sNextId, sFlushCalls,
                 sCloseCalls, sCloseDone>>

\* s.wc.Close()
SWcClose(g) ==
  /\ SRunning /\ spc[g] = "wcclose"
  /\ sinkCloses' = sinkCloses + 1
  /\ \E r \in {"nil", "errSink"} : sret' = [sret EXCEPT ![g] = r]
  /\ scall' = [scall EXCEPT ![g].performed = TRUE]
  /\ spc' = [spc EXCEPT ![g] = "unlock"]
  /\ UNCHANGED <<variant, oFilter, lvars, avars, cvars, sClosed, sMu, sHasBuf, sHasFile, sLogInfo, sLogErr, sFilter,
                 sBuf, sink, sinkWriter, sarg, sCloseLog, sNextId, sFlushCalls, sCloseCalls,
                 sCloseDone>>

AlreadyClosedUnchecked == FALSE

\* if s.closed { return errAlreadyClosed } of Flush and Log
AlreadyClosed == sClosed

\* Flush: the closed check
SFlushBody(g) ==
  /\ SRunning /\ spc[g] = "body" /\ scall[g].op = "Flush"
  /\ IF AlreadyClosed
       THEN /\ sret' = [sret EXCEPT ![g] = "errAlreadyClosed"]
            /\ spc' = [spc EXCEPT ![g] = "unlock"]
       ELSE /\ spc' = [spc EXCEPT ![g] = "bufflush"]
            /\ sret' = sret
  /\ UNCHANGED <<variant, oFilter, lvars, avars, cvars, sClosed, sMu, sHasBuf, sHasFile, sLogInfo, sLogErr, sFilter,
                 sBuf, sink, sinkCloses, sinkWriter, sarg, scall, sCloseLog, sNextId,
                 sFlushCalls, sCloseCalls, sCloseDone>>

\* Flush: if s.buf != nil { err := s.buf.Flush(); if err != nil { return err } }
\* bufio.Writer.Flush returns nil without a write when nothing is buffered
SBufFlush(g) ==
  /\ SRunning /\ spc[g] = "bufflush"
  /\ IF sHasBuf /\ sBuf # <<>>
       THEN \/ /\ sink' = sink \o sBuf
               /\ sBuf' = <<>>
               /\ spc' = [spc EXCEPT ![g] = "sync"]
               /\ sret' = sret
            \/ /\ sret' = [sret EXCEPT ![g] = "errSink"]
               /\ spc' = [spc EXCEPT ![g] = "unlock"]
               /\ UNCHANGED <<sink, sBuf>>
       ELSE /\ spc' = [spc EXCEPT ![g] = "sync"]
            /\ UNCHANGED <<sink, sBuf, sret>>
  /\ UNCHANGED <<variant, oFilter, lvars, avars, cvars, sClosed, sMu, sHasBuf, sHasFile, sLogInfo, sLogErr, sFilter,
                 sinkCloses, sinkWriter, sarg, scall, sCloseLog, sNextId, sFlushCalls,
                 sCloseCalls, sCloseDone>>

\* Flush: if s.file != nil { err := s.file.Sync(); if err != nil { return err } }; return nil
SSync(g) ==
  /\ SRunning /\ spc[g] = "sync"
  /\ \E r \in (IF sHasFile THEN {"nil", "errSink"} ELSE {"nil"}) :
       sret' = [sret EXCEPT ![g] = r]
  /\ spc' = [spc EXCEPT ![g] = "unlock"]
  /\ UNCHANGED <<variant, oFilter, lvars, avars, cvars, sClosed, sMu, sHasBuf, sHasFile, sLogInfo, sLogErr, sFilter,
                 sBuf, sink, sinkCloses, sinkWriter, sarg, scall, sCloseLog, sNextId,
                 sFlushCalls, sCloseCalls, sCloseDone>>

SeverityIgnored(e) == FALSE

\* Log: if e.Error { if !s.logErr { return nil } } else if !s.logInfo { return nil }
SeverityRejected(e) == IF e.isError THEN ~sLogErr ELSE ~sLogInfo

\* Log: if s.filter != nil && !s.filter(e) { return nil }
FilterRejected(e) == sFilter # "nil" /\ e.id \notin sFilter

\* Log: the closed check and the two filters
SLogBody(g) ==
  /\ SRunning /\ spc[g] = "body" /\ scall[g].op = "Log"
  /\ IF AlreadyClosed
       THEN /\ sret' = [sret EXCEPT ![g] = "errAlreadyClosed"]
            /\ spc' = [spc EXCEPT ![g] = "unlock"]
       ELSE IF SeverityRejected(sarg[g]) \/ FilterRejected(sarg[g])
         THEN /\ sret' = [sret EXCEPT ![g] = "nil"]
              /\ spc' = [spc EXCEPT ![g] = "unlock"]
         ELSE /\ spc' = [spc EXCEPT ![g] = "write"]
              /\ sret' = sret
  /\ UNCHANGED <<variant, oFilter, lvars, avars, cvars, sClosed, sMu, sHasBuf, sHasFile, sLogInfo, sLogErr, sFilter,
                 sBuf, sink, sinkCloses, sinkWriter, sarg, scall, sCloseLog, sNextId,
                 sFlushCalls, sCloseCalls, sCloseDone>>

\* Log: s.f.Write(e, s.wc) begins
SWriteBegin(g) ==
  /\ SRunning /\ spc[g] = "write"
  /\ sinkWriter' = g
  /\ spc' = [spc EXCEPT ![g] = "writing"]
  /\ UNCHANGED <<variant, oFilter, lvars, avars, cvars, sClosed, sMu, sHasBuf, sHasFile, sLogInfo, sLogErr, sFilter,
                 sBuf, sink, sinkCloses, sarg, sret, scall, sCloseLog, sNextId, sFlushCalls,
                 sCloseCalls, sCloseDone>>

\* Log: s.f.Write(e, s.wc) returns: the bytes reached s.wc, or the write failed
SWriteEnd(g) ==
  /\ SRunning /\ spc[g] = "writing"
  /\ sinkWriter' = NoOne
  /\ \/ /\ sinkCloses = 0
        /\ sink' = Append(sink, sarg[g])
        /\ sret' = [sret EXCEPT ![g] = "nil"]
     \/ /\ sink' = sink
        /\ sret' = [sret EXCEPT ![g] = "errSink"]
  /\ spc' = [spc EXCEPT ![g] = "unlock"]
  /\ UNCHANGED <<variant, oFilter, lvars, avars, cvars, sClosed, sMu, sHasBuf, sHasFile, sLogInfo, sLogErr, sFilter,
                 sBuf, sinkCloses, sarg, scall, sCloseLog, sNextId, sFlushCalls, sCloseCalls,
                 sCloseDone>>

\* defer s.mu.Unlock() runs and the call of a caller thread returns
SUnlock(t) ==
  /\ SRunning /\ t \in Threads /\ spc[t] = "unlock"
  /\ sMu' = IF sMu = t THEN NoOne ELSE sMu
  /\ spc' = [spc EXCEPT ![t] = "idle"]
  /\ sarg' = [sarg EXCEPT ![t] = NoRec]
  /\ IF scall[t].op = "Close"
       THEN /\ sCloseLog' = Append(sCloseLog, [res |-> sret[t], performed |-> scall[t].performed])
            /\ sCloseDone' = sCloseDone + 1
       ELSE UNCHANGED <<sCloseLog, sCloseDone>>
  /\ UNCHANGED <<variant, oFilter, lvars, avars, cvars, sClosed, sHasBuf, sHasFile, sLogInfo, sLogErr, sFilter, sBuf,
                 sink, sinkCloses, sinkWriter, sret, scall, sNextId, sFlushCalls,
                 sCloseCalls>>

\* stream.flush: s.Flush() returned; for s.Flush() != nil { time.Sleep(duration) }
BGReturn ==
  /\ SRunning /\ spc[BG] = "unlock"
  /\ sMu' = IF sMu = BG THEN NoOne ELSE sMu
  /\ spc' = [spc EXCEPT ![BG] = IF sret[BG] # "nil" THEN "sleep" ELSE "done"]
  /\ UNCHANGED <<variant, oFilter, lvars, avars, cvars, sClosed, sHasBuf, sHasFile, sLogInfo, sLogErr, sFilter, sBuf,
                 sink, sinkCloses, sinkWriter, sarg, sret, scall, sCloseLog, sNextId,
                 sFlushCalls, sCloseCalls, sCloseDone>>

NextStream ==
  \/ \E t \in Threads : SCallLog(t)
  \/ \E t \in Threads : SCallFlush(t)
  \/ \E t \in Threads : SCallClose(t)
  \/ BGWake
  \/ \E g \in StreamCallers : SLock(g)
  \/ \E g \in StreamCallers : SCloseBody(g)
  \/ \E g \in StreamCallers : SWcClose(g)
  \/ \E g \in StreamCallers : SFlushBody(g)
  \/ \E g \in StreamCallers : SBufFlush(g)
  \/ \E g \in StreamCallers : SSync(g)
  \/ \E g \in StreamCallers : SLogBody(g)
  \/ \E g \in StreamCallers : SWriteBegin(g)
  \/ \E g \in StreamCallers : SWriteEnd(g)
  \/ \E t \in Threads : SUnlock(t)
  \/ BGReturn

SpecStream == InitStream /\ [][NextStream]_vars

SpecStreamFiltered == InitStreamFiltered /\ [][NextStream]_vars

(***************************************************************************)
(* Properties of the StreamHandler                                         *)
(***************************************************************************)
SReturned(g, op) == scall[g].op = op /\ sret[g] # "none" /\ spc[g] \in {"idle", "sleep", "done"}
InBody(g) == spc[g] \in {"body", "wcclose", "bufflush", "sync", "write", "writing", "unlock"}
Performed == {i \in 1..Len(sCloseLog) : sCloseLog[i].performed}

\* C7: among the Close calls that returned, exactly one closed the sink and
\* returned the sink's result; every other one returned the already-closed
\* error without touching the sink, which is closed at most once.
C7_StreamCloseGuard ==
  /\ sinkCloses <= 1
  /\ Len(sCloseLog) >= 1 =>
       /\ Cardinality(Performed) = 1
       /\ sinkCloses = 1
       /\ \A i \in 1..Len(sCloseLog) :
            IF sCloseLog[i].performed
              THEN sCloseLog[i].res \in {"nil", "errSink"}
              ELSE sCloseLog[i].res = "errAlreadyClosed"

C7_Witness ==
  /\ Len(sCloseLog) >= 2
  /\ \E i \in 1..Len(sCloseLog) : sCloseLog[i].res = "errAlreadyClosed"
  /\ \E i \in 1..Len(sCloseLog) : sCloseLog[i].performed

\* C9: a Log or Flush call made after a Close call returned never gets past
\* its closed check: it returns the already-closed error, and it neither
\* writes to the sink nor flushes or syncs anything.
C9_StreamAfterClose ==
  \A g \in StreamCallers :
    (scall[g].afterClose /\ scall[g].op \in {"Log", "Flush"}) =>
       /\ spc[g] \notin {"bufflush", "sync", "write", "writing"}
       /\ SReturned(g, scall[g].op) => sret[g] = "errAlreadyClosed"

C9_Witness ==
  /\ \E t \in Threads : /\ scall[t].afterClose /\ scall[t].op = "Log"
                         /\ spc[t] = "unlock" /\ sret[t] = "errAlreadyClosed"
                         /\ ~SeverityRejected(sarg[t])
  /\ \E g \in StreamCallers : scall[g].afterClose /\ SReturned(g, "Flush")

\* C10: at most one goroutine is between Lock and Unlock of Log, Flush or
\* Close (the background flush included), and once the sink has been closed
\* no formatter write to it is about to begin or in progress.
C10_StreamSerialized ==
  /\ Cardinality({g \in StreamCallers : InBody(g)}) <= 1
  /\ sinkCloses > 0 => /\ sinkWriter = NoOne
                       /\ \A g \in StreamCallers : spc[g] \notin {"write", "writing"}

C10_Witness ==
  /\ sinkCloses > 0
  /\ \E t \in Threads : spc[t] = "lock" /\ scall[t].op = "Log"
  /\ spc[BG] = "lock"
  /\ Len(sink) > 0

\* the severity bit of e is in the mask the handler was constructed with
InMask(e) == IF e.isError THEN sLogErr ELSE sLogInfo

\* C11: only Entries whose severity bit is in the configured mask ever reach
\* the sink; a Log call for an Entry outside the mask never begins a write,
\* and it returns nil (on a handler already closed, the closed check comes
\* first and it returns the already-closed error, still without a write).
C11_SeverityFilter ==
  /\ \A i \in 1..Len(sink) : InMask(sink[i])
  /\ \A i \in 1..Len(sBuf) : InMask(sBuf[i])
  /\ \A g \in StreamCallers :
       (scall[g].op = "Log" /\ sarg[g] # NoRec /\ ~InMask(sarg[g])) =>
          /\ spc[g] \notin {"write", "writing"}
          /\ spc[g] = "unlock" =>
               sret[g] = IF sClosed THEN "errAlreadyClosed" ELSE "nil"

\* mask Error only: an Info Entry was turned away with nil on the open
\* handler, while an Error Entry has been written
C11_Witness ==
  /\ sLogErr /\ ~sLogInfo /\ ~sClosed
  /\ \E t \in Threads : /\ scall[t].op = "Log" /\ spc[t] = "unlock"
                         /\ sarg[t] # NoRec /\ ~sarg[t].isError /\ sret[t] = "nil"
  /\ \E i \in 1..Len(sink) : sink[i].isError

\* C12: on a StreamHandler constructed with a Filter predicate, an Entry the
\* predicate returns false for is never written to the sink, and a Log call
\* for such an Entry whose severity is in the mask never begins a write and
\* returns nil while the handler is open.
C12_PredicateFilter ==
  oFilter.given =>
    /\ \A i \in 1..Len(sink) : sink[i].id \in oFilter.accepts
    /\ \A g \in StreamCallers :
         (scall[g].op = "Log" /\ sarg[g] # NoRec /\ InMask(sarg[g])
            /\ sarg[g].id \notin oFilter.accepts) =>
            /\ spc[g] \notin {"write", "writing"}
            /\ (spc[g] = "unlock" /\ ~sClosed) => sret[g] = "nil"
\* C24: while the handler is open the background loop of a buffered
\* StreamHandler has not ended: it is asleep or inside a Flush call, whether
\* its last Flush failed or succeeded.
C24_LoopWhileOpen ==
  (sHasBuf /\ ~sClosed) => spc[BG] # "done"

\* C25: with a buffer an accepted Entry is in the buffer and not yet in the
\* sink when the Log call that wrote it is about to return, and the buffer
\* is empty when a Flush call is about to return nil; without a buffer the
\* Entry is in the sink when its Log call is about to return nil.
C25_Buffering ==
  /\ \A g \in StreamCallers :
       (scall[g].op = "Log" /\ spc[g] = "unlock" /\ sret[g] = "nil"
          /\ ~SeverityRejected(sarg[g]) /\ ~FilterRejected(sarg[g])) =>
          IF sHasBuf
            THEN /\ \E i \in 1..Len(sBuf) : sBuf[i] = sarg[g]
                 /\ \A i \in 1..Len(sink) : sink[i] # sarg[g]
            ELSE \E i \in 1..Len(sink) : sink[i] = sarg[g]
  /\ \A g \in StreamCallers :
       (scall[g].op = "Flush" /\ spc[g] = "unlock" /\ sret[g] = "nil") => sBuf = <<>>

\* the steps of caller g (a thread inside a call, or the background loop)
SStep(g) ==
  \/ SLock(g) \/ SCloseBody(g) \/ SWcClose(g) \/ SFlushBody(g) \/ SBufFlush(g)
  \/ SSync(g) \/ SLogBody(g) \/ SWriteBegin(g) \/ SWriteEnd(g)
  \/ (g \in Threads /\ SUnlock(g))
  \/ (g = BG /\ (BGWake \/ BGReturn))

\* the scheduler runs every goroutine that can take a step; time.Sleep ends
SpecStreamFair ==
  InitStream /\ [][NextStream]_vars /\ \A g \in StreamCallers : WF_vars(SStep(g))

\* C30: once a Close call has returned, the background loop ends
C30_LoopStopsAfterClose ==
  (sCloseDone > 0) ~> (spc[BG] = "done")


(***************************************************************************)
(* FailoverHandler and MultiHandler (log/handler.go), called by one thread *)
(* at a time, over StreamHandler children (unbuffered, MixedLog).          *)
(***************************************************************************)
\* the error the sink of child i returns when it is a failing one
SinkErr(i) == "errSink" \o ToString(i)

NewKid(i, bad) == [closed |-> FALSE, sinkCloses |-> 0, written |-> <<>>,
                   sinkErr |-> IF bad THEN SinkErr(i) ELSE "nil",
                   nLog |-> 0, nFlush |-> 0, nClose |-> 0]

\* FailoverHandler(handlers...) / MultiHandler(handlers...)
InitCombo ==
  /\ variant \in {"Failover", "Multi"}
  /\ oFilter = NoFilter
  /\ \E n \in 0..MaxKids : \E bad \in [1..n -> BOOLEAN] : kids = [i \in 1..n |-> NewKid(i, bad[i])]
  /\ InitComboVars
  /\ cap = 0
  /\ InitAsyncVars
  /\ NoStream
  /\ NoLogger

KidCloseUnguarded(k) ==
  [kid |-> [k EXCEPT !.closed = TRUE, !.sinkCloses = @ + 1, !.nClose = @ + 1],
   err |-> k.sinkErr]

\* stream.Close of a child, run to completion
KidClose(k) ==
  IF ~k.closed
    THEN [kid |-> [k EXCEPT !.closed = TRUE, !.sinkCloses = @ + 1, !.nClose = @ + 1],
          err |-> k.sinkErr]
    ELSE [kid |-> [k EXCEPT !.nClose = @ + 1], err |-> "errAlreadyClosed"]

\* stream.Flush of a child, run to completion
KidFlush(k) ==
  [kid |-> [k EXCEPT !.nFlush = @ + 1],
   err |-> IF k.closed THEN "errAlreadyClosed" ELSE k.sinkErr]

\* stream.Log of a child, run to completion
KidLog(k, e) ==
  IF k.closed THEN [kid |-> [k EXCEPT !.nLog = @ + 1], err |-> "errAlreadyClosed"]
  ELSE IF k.sinkErr # "nil" THEN [kid |-> [k EXCEPT !.nLog = @ + 1], err |-> k.sinkErr]
  ELSE [kid |-> [k EXCEPT !.nLog = @ + 1, !.written = Append(@, e)], err |-> "nil"]

\* one call the combinator made on child i: h.Close(), h.Flush() or h.Log(e)
Invoked(i, op, e, err) == [kid |-> i, op |-> op, e |-> e, err |-> err]

RECURSIVE CloseAllLastError(_, _, _, _)
CloseAllLastError(ks, i, firstError, tr) ==
  IF i > Len(ks) THEN [kids |-> ks, err |-> firstError, tr |-> tr]
  ELSE LET r == KidClose(ks[i])
       IN CloseAllLastError([ks EXCEPT ![i] = r.kid], i + 1,
                            IF r.err # "nil" THEN r.err ELSE firstError,
                            Append(tr, Invoked(i, "Close", NoEntry, r.err)))

\* for _, h := range handlers { err := h.Close(); if err != nil && firstError == nil {...} }
RECURSIVE CloseAll(_, _, _, _)
CloseAll(ks, i, firstError, tr) ==
  IF i > Len(ks) THEN [kids |-> ks, err |-> firstError, tr |-> tr]
  ELSE LET r == KidClose(ks[i])
       IN CloseAll([ks EXCEPT ![i] = r.kid], i + 1,
                   IF r.err # "nil" /\ firstError = "nil" THEN r.err ELSE firstError,
                   Append(tr, Invoked(i, "Close", NoEntry, r.err)))

\* for _, h := range handlers { err := h.Flush(); if err != nil && firstError == nil {...} }
RECURSIVE FlushAll(_, _, _, _)
FlushAll(ks, i, firstError, tr) ==
  IF i > Len(ks) THEN [kids |-> ks, err |-> firstError, tr |-> tr]
  ELSE LET r == KidFlush(ks[i])
       IN FlushAll([ks EXCEPT ![i] = r.kid], i + 1,
                   IF r.err # "nil" /\ firstError = "nil" THEN r.err ELSE firstError,
                   Append(tr, Invoked(i, "Flush", NoEntry, r.err)))

RECURSIVE FailoverLogAll(_, _, _, _, _)
FailoverLogAll(ks, i, e, err, tr) ==
  IF i > Len(ks) THEN [kids |-> ks, err |-> err, tr |-> tr, e |-> e]
  ELSE LET r == KidLog(ks[i], e)
       IN FailoverLogAll([ks EXCEPT ![i] = r.kid], i + 1, e, r.err,
                         Append(tr, Invoked(i, "Log", e, r.err)))

\* failover.Log: for _, h := range f.handlers { err = h.Log(e); if err == nil { return nil } }
\* e is handed to every child as it came in: e.Data is not written
RECURSIVE FailoverLogFrom(_, _, _, _, _)
FailoverLogFrom(ks, i, e, err, tr) ==
  IF i > Len(ks) THEN [kids |-> ks, err |-> err, tr |-> tr, e |-> e]
  ELSE LET r == KidLog(ks[i], e)
           t == Append(tr, Invoked(i, "Log", e, r.err))
       IN IF r.err = "nil" THEN [kids |-> [ks EXCEPT ![i] = r.kid], err |-> "nil", tr |-> t, e |-> e]
          ELSE FailoverLogFrom([ks EXCEPT ![i] = r.kid], i + 1, e, r.err, t)

RECURSIVE ListLogStopOnError(_, _, _, _, _)
ListLogStopOnError(ks, i, e, prevError, tr) ==
  IF i > Len(ks) THEN [kids |-> ks, err |-> prevError, tr |-> tr, e |-> e]
  ELSE LET r == KidLog(ks[i], e)
           t == Append(tr, Invoked(i, "Log", e, r.err))
       IN IF r.err # "nil" THEN [kids |-> [ks EXCEPT ![i] = r.kid], err |-> prevError, tr |-> t, e |-> e]
          ELSE ListLogStopOnError([ks EXCEPT ![i] = r.kid], i + 1, e, prevError, t)

\* list.Log: for _, h := range l.handlers { err := h.Log(e); if prevError != nil { prevError = err } }
RECURSIVE ListLogFrom(_, _, _, _, _)
ListLogFrom(ks, i, e, prevError, tr) ==
  IF i > Len(ks) THEN [kids |-> ks, err |-> prevError, tr |-> tr, e |-> e]
  ELSE LET r == KidLog(ks[i], e)
       IN ListLogFrom([ks EXCEPT ![i] = r.kid], i + 1, e,
                      IF prevError # "nil" THEN r.err ELSE prevError,
                      Append(tr, Invoked(i, "Log", e, r.err)))

CRunning == variant \in {"Failover", "Multi"} /\ cOps < MaxComboOps

\* failover.Close / list.Close
ComboClose ==
  /\ CRunning
  /\ LET r == CloseAll(kids, 1, "nil", <<>>)
     IN kids' = r.kids /\ cret' = r.err /\ ctrace' = r.tr
  /\ cop' = "Close"
  /\ carg' = NoEntry /\ cgiven' = {}
  /\ cOps' = cOps + 1
  /\ cCloseCalls' = cCloseCalls + 1
  /\ UNCHANGED <<variant, oFilter, lvars, avars, svars, cNextId>>

\* failover.Flush / list.Flush
ComboFlush ==
  /\ CRunning
  /\ LET r == FlushAll(kids, 1, "nil", <<>>)
     IN kids' = r.kids /\ cret' = r.err /\ ctrace' = r.tr
  /\ cop' = "Flush"
  /\ carg' = NoEntry /\ cgiven' = {}
  /\ cOps' = cOps + 1
  /\ UNCHANGED <<variant, oFilter, lvars, avars, svars, cCloseCalls, cNextId>>

\* the key failover.Log of the earlier revision probes: golly_log_failover_<id>
FailoverKey(id) == "golly_log_failover_" \o ToString(id)

\* the Data maps a caller attaches to an Entry: none, or one that already
\* uses the first failover key
DataInputs == {{}, {[key |-> FailoverKey(1), val |-> "user"]}}

\* failover.Log / list.Log; carg is the Entry as the caller holds it afterwards
ComboLog ==
  /\ CRunning /\ cNextId <= MaxComboRecs
  /\ \E d \in DataInputs :
       LET e == [id |-> cNextId, data |-> d]
           r == IF variant = "Failover" THEN FailoverLogFrom(kids, 1, e, "nil", <<>>)
                                        ELSE ListLogFrom(kids, 1, e, "nil", <<>>)
       IN kids' = r.kids /\ cret' = r.err /\ ctrace' = r.tr /\ carg' = r.e /\ cgiven' = d
  /\ cop' = "Log"
  /\ cOps' = cOps + 1
  /\ cNextId' = cNextId + 1
  /\ UNCHANGED <<variant, oFilter, lvars, avars, svars, cCloseCalls>>

NextCombo == ComboClose \/ ComboFlush \/ ComboLog

SpecCombo == InitCombo /\ [][NextCombo]_vars

(***************************************************************************)
(* Properties of the combinators                                           *)
(***************************************************************************)
\* the children a call invoked are 1..Len(tr), each once, in configured order
InOrder(tr, op) == \A j \in 1..Len(tr) : tr[j].kid = j /\ tr[j].op = op
Failed(tr) == {j \in 1..Len(tr) : tr[j].err # "nil"}
Max(S) == CHOOSE x \in S : \A y \in S : y <= x
Min(S) == CHOOSE x \in S : \A y \in S : x <= y
FirstErr(tr) == IF Failed(tr) = {} THEN "nil" ELSE tr[Min(Failed(tr))].err
LastErr(tr) == IF Failed(tr) = {} THEN "nil" ELSE tr[Max(Failed(tr))].err

\* C13: FailoverHandler.Log calls its children in configured order, each at
\* most once; every child before the last one called failed; when the last
\* one called returned nil the call returns nil and no later child is called;
\* otherwise every child was called and failed, and the call returns the last
\* child's error.
C13_FailoverOrder ==
  (variant = "Failover" /\ cop = "Log") =>
     LET k == Len(ctrace)
     IN /\ k <= Len(kids)
        /\ InOrder(ctrace, "Log")
        /\ \A j \in 1..k : ctrace[j].e = [id |-> carg.id, data |-> cgiven]
        /\ \A j \in 1..(k - 1) : ctrace[j].err # "nil"
        /\ IF k = 0 THEN Len(kids) = 0 /\ cret = "nil"
           ELSE /\ cret = ctrace[k].err
                /\ ctrace[k].err # "nil" => k = Len(kids)

\* the first child fails, the second takes the Entry, the third is not called
C13_Witness ==
  /\ variant = "Failover" /\ cop = "Log" /\ Len(kids) = 3
  /\ Len(ctrace) = 2 /\ ctrace[1].err = SinkErr(1) /\ ctrace[2].err = "nil"
  /\ cret = "nil" /\ kids[3].nLog = 0
  /\ Len(kids[2].written) = 1

\* C14 as stated: after FailoverHandler.Log the Entry's data map holds what
\* the caller gave, unchanged, plus one synthesized key per failed child,
\* whose value is that child's error.
C14_FailureRecorded ==
  (variant = "Failover" /\ cop = "Log") =>
     LET added == carg.data \ cgiven
     IN /\ cgiven \subseteq carg.data
        /\ \A p, q \in carg.data : p.key = q.key => p = q
        /\ Cardinality(added) = Cardinality(Failed(ctrace))
        /\ \A j \in Failed(ctrace) : \E p \in added : p.val = ctrace[j].err

\* C15 as stated: MultiHandler.Log returns the error of the last child, in
\* configured order, whose Log failed, and nil only when none failed.
C15_LastError ==
  (variant = "Multi" /\ cop = "Log") => cret = LastErr(ctrace)

\* C16: MultiHandler.Log calls Log on every child exactly once, in
\* configured order, each time with the Entry it was given, whatever the
\* children before returned; the children that returned nil have written it.
C16_MultiAll ==
  (variant = "Multi" /\ cop = "Log") =>
     /\ Len(ctrace) = Len(kids)
     /\ InOrder(ctrace, "Log")
     /\ \A j \in 1..Len(ctrace) :
          /\ ctrace[j].e = [id |-> carg.id, data |-> cgiven]
          /\ ctrace[j].err = "nil" =>
               /\ Len(kids[j].written) > 0
               /\ kids[j].written[Len(kids[j].written)] = ctrace[j].e

\* the first child fails and the two after it are still called
C16_Witness ==
  /\ variant = "Multi" /\ cop = "Log" /\ Len(kids) = 3 /\ Len(ctrace) = 3
  /\ ctrace[1].err = SinkErr(1) /\ ctrace[2].err = "nil" /\ ctrace[3].err = SinkErr(3)
  /\ kids[2].written = <<ctrace[2].e>>

\* C17: Close and Flush of a Failover or Multi handler call the same
\* operation on every child exactly once, in configured order, and return
\* the error of the first child that failed, nil when none failed.
C17_FanOut ==
  (variant \in {"Failover", "Multi"} /\ cop \in {"Close", "Flush"}) =>
     /\ Len(ctrace) = Len(kids)
     /\ InOrder(ctrace, cop)
     /\ cret = FirstErr(ctrace)

\* Close with the second and the third child failing with different errors:
\* all three are closed and the second one's error is returned; a Flush
\* before it had reached every child too
C17_Witness ==
  /\ cop = "Close" /\ Len(kids) = 3 /\ Len(ctrace) = 3
  /\ ctrace[1].err = "nil" /\ ctrace[2].err = SinkErr(2) /\ ctrace[3].err = SinkErr(3)
  /\ cret = SinkErr(2)
  /\ \A i \in 1..3 : kids[i].nClose = 1 /\ kids[i].nFlush = 1

(***************************************************************************)
(* The Logger tree and the propagation walk (Logger.log, Logger.logEntry), *)
(* used by one goroutine: SetHandler is documented as not threadsafe.      *)
(***************************************************************************)
Leaf(kind) == [kind |-> kind, kids |-> <<>>]

\* the Handlers given to SetHandler: nil, a StreamHandler, an AsyncHandler,
\* and Failover/Multi handlers over two of those
HandlerInputs ==
  {NoHandler, Leaf("Stream"), Leaf("Async")}
    \cup {[kind |-> k, kids |-> ks] : k \in {"Failover", "Multi"},
                                      ks \in {<<Leaf("Stream"), Leaf("Async")>>,
                                              <<Leaf("Stream"), Leaf("Stream")>>}}

\* h.Async(): stream.Async, async.Async, failover.Async, list.Async
RECURSIVE HandlerAsync(_)
HandlerAsync(h) ==
  CASE h.kind = "Stream" -> FALSE
    [] h.kind = "Async" -> TRUE
    [] OTHER -> \E i \in 1..Len(h.kids) : HandlerAsync(h.kids[i])

\* h.Log(e): what it returns and whether e was sent to an AsyncHandler's queue;
\* sfail: the write of a StreamHandler fails
RECURSIVE HandlerLog(_, _)
HandlerLog(h, sfail) ==
  LET rs == [i \in 1..Len(h.kids) |-> HandlerLog(h.kids[i], sfail)]
      ok == {i \in 1..Len(h.kids) : rs[i].err = "nil"}
      tried == IF ok = {} THEN Len(h.kids) ELSE Min(ok)
  IN CASE h.kind = "Stream" -> [err |-> IF sfail THEN "errSink" ELSE "nil", queued |-> FALSE]
       [] h.kind = "Async" -> [err |-> "nil", queued |-> TRUE]
       [] h.kind = "Failover" ->
            [err |-> IF tried > 0 THEN rs[tried].err ELSE "nil",
             queued |-> \E i \in 1..tried : rs[i].queued]
       [] h.kind = "Multi" ->
            [err |-> "nil", queued |-> \E i \in 1..Len(h.kids) : rs[i].queued]

\* the Loggers from n up to the root, emitter first
RECURSIVE Chain(_)
Chain(n) == IF n = 0 THEN <<>> ELSE <<n>> \o Chain(loggers[n].parent)

\* root, New on root, New on some Logger
InitLogger ==
  /\ variant = "Logger"
  /\ oFilter = NoFilter
  /\ cap = 0
  /\ InitAsyncVars
  /\ NoStream
  /\ NoCombo
  /\ InitLoggerVars

LRunning == variant = "Logger" /\ lpc = "idle"

\* the names given to New
Labels == {"", "a", "b"}

\* New: if l.context != "" { if ctx != "" { ctx = l.context + "." + ctx } else { ctx = l.context } }
DotAppended(context, ctx) ==
  IF context # "" THEN (IF ctx # "" THEN context \o "." \o ctx ELSE context) ELSE ctx

\* New: return &Logger{context: l.context, parent: l}; the ctx computed
\* before is not used
ChildContext(l, ctx) == l.context

\* l.New(ctx)
LNew(p, ctx) ==
  /\ LRunning /\ Len(loggers) < MaxLoggers /\ p \in 1..Len(loggers) /\ ctx \in Labels
  /\ loggers' = Append(loggers, NewLogger(p, ChildContext(loggers[p], ctx)))
  /\ lnew' = [parent |-> p, ctx |-> ctx, child |-> Len(loggers) + 1,
              parentContext |-> loggers[p].context]
  /\ UNCHANGED <<variant, oFilter, avars, svars, cvars, lpc, lcur, le, lasync, levents, lcall,
                 pool, held, lCalls, lNextRec, lOps>>

\* l.SetHandler(h): l.handler = h
LSetHandler(n, h) ==
  /\ LRunning /\ lOps < MaxLoggerOps /\ n \in 1..Len(loggers)
  /\ h \in HandlerInputs /\ h # loggers[n].handler
  /\ loggers' = [loggers EXCEPT ![n].handler = h]
  /\ lOps' = lOps + 1
  /\ lnew' = NoNew
  /\ UNCHANGED <<variant, oFilter, avars, svars, cvars, lpc, lcur, le, lasync, levents, lcall,
                 pool, held, lCalls, lNextRec>>

\* l.StopPropagation(): l.stop = true
LStopPropagation(n) ==
  /\ LRunning /\ lOps < MaxLoggerOps /\ n \in 1..Len(loggers)
  /\ loggers' = [loggers EXCEPT ![n].stop = TRUE,
                                ![n].firstAfterStop = IF @ = 0 THEN lCalls + 1 ELSE @]
  /\ lOps' = lOps + 1
  /\ lnew' = NoNew
  /\ UNCHANGED <<variant, oFilter, avars, svars, cvars, lpc, lcur, le, lasync, levents, lcall,
                 pool, held, lCalls, lNextRec>>

\* l.Info / l.Error -> l.log: entryPool.Get() returns nil (a fresh Entry is
\* allocated) or an Entry of the pool; then l.logEntry(e, 3) is entered
LLog(n) ==
  /\ LRunning /\ lCalls < MaxLogCalls /\ n \in 1..Len(loggers)
  /\ \/ /\ le' = lNextRec
        /\ lNextRec' = lNextRec + 1
        /\ pool' = pool
     \/ \E r \in pool : /\ le' = r
                        /\ pool' = pool \ {r}
                        /\ lNextRec' = lNextRec
  /\ lcur' = n
  /\ lasync' = FALSE
  /\ levents' = <<>>
  /\ lcall' = [emitter |-> n,
               syncChain |-> \A i \in 1..Len(Chain(n)) :
                                LET l == loggers[Chain(n)[i]]
                                IN l.handler # NoHandler /\ ~HandlerAsync(l.handler) /\ ~l.stop]
  /\ lCalls' = lCalls + 1
  /\ lpc' = "visit"
  /\ lnew' = NoNew
  /\ UNCHANGED <<variant, oFilter, avars, svars, cvars, loggers, held, lOps>>

WalkEndsAtOnce(l) == TRUE

StopIgnored(l) == l.parent = 0

\* if l.parent == nil || l.stop { break }
WalkEnds(l) == l.parent = 0 \/ l.stop

\* one iteration of logEntry's loop: if l.handler != nil { l.handler.Log(e);
\* if l.handler.Async() { async = true } }; break or l = l.parent
LVisit ==
  /\ variant = "Logger" /\ lpc = "visit"
  /\ LET l == loggers[lcur]
     IN /\ IF l.handler # NoHandler
             THEN \E sfail \in BOOLEAN :
                    /\ levents' = Append(levents, [op |-> "Log", node |-> lcur,
                                                   h |-> l.handler, e |-> le])
                    /\ held' = IF HandlerLog(l.handler, sfail).queued THEN held \cup {le} ELSE held
                    /\ lasync' = (lasync \/ HandlerAsync(l.handler))
             ELSE UNCHANGED <<levents, held, lasync>>
        /\ IF WalkEnds(l)
             THEN lpc' = "end" /\ lcur' = lcur
             ELSE lpc' = "visit" /\ lcur' = l.parent
  /\ UNCHANGED <<variant, oFilter, avars, svars, cvars, loggers, le, lcall, pool, lCalls,
                 lNextRec, lOps, lnew>>

PutBackAlways == TRUE

\* if !async { entryPool.Put(e) }
PutBack == ~lasync

\* the end of logEntry
LEnd ==
  /\ variant = "Logger" /\ lpc = "end"
  /\ IF PutBack
       THEN /\ pool' = pool \cup {le}
            /\ levents' = Append(levents, [op |-> "Put", node |-> 0, h |-> NoHandler, e |-> le])
       ELSE UNCHANGED <<pool, levents>>
  /\ lpc' = "idle"
  /\ lcur' = 0
  /\ UNCHANGED <<variant, oFilter, avars, svars, cvars, loggers, le, lasync, lcall, held, lCalls,
                 lNextRec, lOps, lnew>>

NextLogger ==
  \/ \E p \in 1..MaxLoggers : \E ctx \in Labels : LNew(p, ctx)
  \/ \E n \in 1..MaxLoggers : \E h \in HandlerInputs : LSetHandler(n, h)
  \/ \E n \in 1..MaxLoggers : LStopPropagation(n)
  \/ \E n \in 1..MaxLoggers : LLog(n)
  \/ LVisit
  \/ LEnd

SpecLogger == InitLogger /\ [][NextLogger]_vars

(***************************************************************************)
(* Properties of the propagation walk                                      *)
(***************************************************************************)
Puts == {j \in 1..Len(levents) : levents[j].op = "Put"}
Logs == {j \in 1..Len(levents) : levents[j].op = "Log"}
\* StopPropagation was called on Logger n before the current logging call was made
StoppedBefore(n) == loggers[n].firstAfterStop > 0 /\ loggers[n].firstAfterStop <= lCalls
\* a Handler that is an AsyncHandler or has one among its children
AnyAsyncLeaf(h) == h.kind = "Async" \/ \E i \in 1..Len(h.kids) : h.kids[i].kind = "Async"

\* C18: a logging call made when every Logger on the emitter's chain holds a
\* synchronous Handler and none has stopped propagation calls Log on the
\* Handlers of the chain from the emitter to the root, once each and in that
\* order, always with the Entry of the call; the Entry is not in the pool
\* during the walk and is put into it once, as the last thing the call does.
C18_PropagationWalk ==
  lcall.syncChain =>
    LET ch == Chain(lcall.emitter)
    IN /\ \A j \in 1..Len(levents) : levents[j].e = le
       /\ lpc \in {"visit", "end"} =>
            /\ Len(levents) <= Len(ch)
            /\ \A j \in 1..Len(levents) : levents[j].op = "Log" /\ levents[j].node = ch[j]
            /\ le \notin pool
       /\ lpc \in {"end", "idle"} =>
            /\ Len(levents) >= Len(ch)
            /\ \A j \in 1..Len(ch) : levents[j].op = "Log" /\ levents[j].node = ch[j]
       /\ lpc = "idle" =>
            /\ Len(levents) = Len(ch) + 1
            /\ Puts = {Len(ch) + 1}
            /\ le \in pool

\* the second call on a chain of three Loggers, on the Entry the first call
\* put into the pool
C18_Witness ==
  /\ lpc = "idle" /\ lcall.syncChain /\ Len(Chain(lcall.emitter)) = 3
  /\ Len(levents) = 4 /\ lCalls = 2 /\ lNextRec = 2

\* C19 as stated: for a logging call made after StopPropagation was called on
\* a Logger L of the emitter's chain, no Handler of a proper ancestor of L is
\* called, L's own Handler, if it has one, is called by the end of the walk,
\* and a switch that was set stays set.
C19_StopPropagation ==
  /\ \A n \in 1..Len(loggers) : loggers[n].firstAfterStop > 0 => loggers[n].stop
  /\ lcall.emitter # 0 =>
       LET ch == Chain(lcall.emitter)
       IN \A i \in 1..Len(ch) :
            StoppedBefore(ch[i]) =>
               /\ \A j \in Logs : \A k \in (i + 1)..Len(ch) : levents[j].node # ch[k]
               /\ (lpc = "end" /\ loggers[ch[i]].handler # NoHandler) =>
                     \E j \in Logs : levents[j].node = ch[i]

\* C19 amended: as above, but L's own Handler is called only when the walk
\* reaches L, that is when no Logger between the emitter and L (the emitter
\* included, L excluded) has stopped propagation itself.
C19_StopPropagationReached ==
  /\ \A n \in 1..Len(loggers) : loggers[n].firstAfterStop > 0 => loggers[n].stop
  /\ lcall.emitter # 0 =>
       LET ch == Chain(lcall.emitter)
       IN \A i \in 1..Len(ch) :
            StoppedBefore(ch[i]) =>
               /\ \A j \in Logs : \A k \in (i + 1)..Len(ch) : levents[j].node # ch[k]
               /\ (lpc = "end" /\ loggers[ch[i]].handler # NoHandler
                     /\ \A k \in 1..(i - 1) : ~StoppedBefore(ch[k])) =>
                     \E j \in Logs : levents[j].node = ch[i]

\* a call emitted below a stopped Logger: the stopped Logger's Handler was
\* called, the root's Handler was not
C19_Witness ==
  /\ lpc = "end" /\ Len(Chain(lcall.emitter)) = 3
  /\ LET ch == Chain(lcall.emitter)
     IN /\ StoppedBefore(ch[2]) /\ ~loggers[ch[1]].stop
        /\ loggers[ch[2]].handler # NoHandler /\ loggers[ch[3]].handler # NoHandler
        /\ Len(levents) = 1 /\ levents[1].node = ch[2]

\* C20: a logging call puts its Entry into the pool exactly when none of the
\* Handlers it called is an AsyncHandler or a Failover/Multi handler with an
\* AsyncHandler among its children; it does so at most once; an Entry sent to
\* an AsyncHandler's queue is never in the pool, and the Entry of a call in
\* progress is not in the pool either, so no other call can take it.
C20_RecordOwnership ==
  /\ held \cap pool = {}
  /\ Cardinality(Puts) <= 1
  /\ lpc # "idle" => le \notin pool /\ Puts = {}
  /\ (lpc = "idle" /\ lcall.emitter # 0) =>
        ((Puts # {}) <=> (\A j \in Logs : ~AnyAsyncLeaf(levents[j].h)))

\* the Entry went through a Multi or Failover handler into an AsyncHandler's
\* queue and through a StreamHandler; it was not put back, while the Entry of
\* the earlier, synchronous call is in the pool
C20_Witness ==
  /\ lpc = "idle" /\ le \in held /\ pool # {} /\ Puts = {}
  /\ \E j \in Logs : levents[j].h.kind \in {"Failover", "Multi"}
  /\ \E j \in Logs : levents[j].h.kind = "Stream"

\* C21 as stated: the child New(ctx) returned has the receiver as its parent
\* and the receiver's context with ctx dot-appended as its context (the
\* receiver's context when ctx is empty), and the receiver's context is what
\* it was before the call.
C21_NewContext ==
  lnew # NoNew =>
    /\ loggers[lnew.child].parent = lnew.parent
    /\ loggers[lnew.child].context = DotAppended(lnew.parentContext, lnew.ctx)
    /\ loggers[lnew.parent].context = lnew.parentContext

(***************************************************************************)
(* All Handler variants                                                    *)
(***************************************************************************)
Init == InitAsync \/ InitStream \/ InitCombo

Next == NextAsync \/ NextStream \/ NextCombo

Spec == Init /\ [][Next]_vars

=============================================================================
